---------------------------- MODULE Spec2Model ----------------------------
(***************************************************************************)
(* Model of analyze_with_textractor.py: the block-graph reconstruction     *)
(* parse_blocks and the job orchestration of main / get_job_results.       *)
(*                                                                         *)
(* Encoding of Python values:                                              *)
(*   - a dict is a function whose DOMAIN is the set of keys present;       *)
(*     {} is EmptyDict;                                                    *)
(*   - a str is a sequence of one-character strings ("" is <<>>);          *)
(*   - a list is a sequence;                                               *)
(*   - the result of dict.get(k) without a default is None or Some(v),     *)
(*     two records, so that null is distinct from 0, from "" and from {};  *)
(*   - a call either returns ([exc |-> "", value |-> v]) or raises         *)
(*     ([exc |-> "KeyError", arg |-> k]).                                  *)
(***************************************************************************)
EXTENDS Integers, Sequences, FiniteSets, TLC

VARIABLES blocks,   \* the node collection handed to parse_blocks
          result,   \* outcome of the latest parse_blocks call (NotCalled before)
          calls,    \* number of parse_blocks calls made so far
          pc,       \* position of main
          argv,     \* sys.argv[1:] as [n, pdf_path, prefix]
          key,      \* the object key computed by main (None before)
          log,      \* external calls made so far, in order
          status,   \* JobStatus of the latest get_document_analysis response
          waited,   \* total time slept in get_job_results
          exit,     \* None while main runs, then the exit code and its cause
          printed   \* the structured result written to stdout (None before)

vars == <<blocks, result, calls, pc, argv, key, log, status, waited, exit, printed>>

---------------------------------------------------------------------------
(* Bounds *)

MaxBlocks == 3      \* nodes in an input collection
MaxCalls == 2       \* calls of parse_blocks on one collection
MaxPolls == 3       \* responses without a terminal status
MaxArgs == 3        \* command-line arguments
MaxPathLen == 3     \* characters of the file path
MaxPrefixLen == 2   \* characters of the key prefix

---------------------------------------------------------------------------
(* Python values *)

None == [null |-> TRUE]
Some(v) == [some |-> v]
EmptyDict == [k \in {} |-> 0]

\* d.get(k)
Get(d, k) == IF k \in DOMAIN d THEN Some(d[k]) ELSE None

\* d.get(k, default)
GetD(d, k, default) == IF k \in DOMAIN d THEN d[k] ELSE default

Ok(v) == [exc |-> "", value |-> v]
Raise(e, a) == [exc |-> e, arg |-> a]
IsOk(r) == r.exc = ""

Whitespace == {" "}

RECURSIVE Join(_)
\* " ".join(items)
Join(items) ==
    IF Len(items) = 0 THEN <<>>
    ELSE IF Len(items) = 1 THEN items[1]
    ELSE items[1] \o <<" ">> \o Join(Tail(items))

RECURSIVE LStrip(_)
LStrip(s) == IF Len(s) > 0 /\ Head(s) \in Whitespace THEN LStrip(Tail(s)) ELSE s

RECURSIVE RStrip(_)
RStrip(s) ==
    IF Len(s) > 0 /\ s[Len(s)] \in Whitespace
    THEN RStrip(SubSeq(s, 1, Len(s) - 1)) ELSE s

\* s.strip()
Strip(s) == RStrip(LStrip(s))

---------------------------------------------------------------------------
(* parse_blocks *)

\* by_id = {b["Id"]: b for b in blocks}: a later block with the same Id wins
ById(bs) ==
    [i \in {bs[n].Id : n \in 1..Len(bs)} |->
        bs[CHOOSE n \in 1..Len(bs) :
              /\ bs[n].Id = i
              /\ \A m \in (n+1)..Len(bs) : bs[m].Id # i]]

RECURSIVE ChildTargets(_)
\* for rel in rels: if rel["Type"] == "CHILD": for cid in rel["Ids"]
ChildTargets(rels) ==
    IF Len(rels) = 0 THEN <<>>
    ELSE (IF Head(rels).Type = "CHILD" THEN Head(rels).Ids ELSE <<>>)
         \o ChildTargets(Tail(rels))

\* b.get("Geometry", {}).get("BoundingBox", {})
BoundingBox(b) == GetD(GetD(b, "Geometry", EmptyDict), "BoundingBox", EmptyDict)

RECURSIVE WordTexts(_, _)
\* the inner loop body: w = by_id[cid]; if WORD: append w.get("Text", "")
WordTexts(by_id, ids) ==
    IF Len(ids) = 0 THEN Ok(<<>>)
    ELSE IF Head(ids) \notin DOMAIN by_id THEN Raise("KeyError", Head(ids))
    ELSE LET rest == WordTexts(by_id, Tail(ids))
             w == by_id[Head(ids)]
         IN  IF ~IsOk(rest) THEN rest
             ELSE IF w.BlockType = "WORD"
                  THEN Ok(<<GetD(w, "Text", <<>>)>> \o rest.value)
                  ELSE rest

\* lines 65-71: the key node's own CHILD targets
key_text(by_id, b) == WordTexts(by_id, ChildTargets(GetD(b, "Relationships", <<>>)))

RECURSIVE AnyTexts(_, _)
AnyTexts(by_id, ids) ==
    IF Len(ids) = 0 THEN Ok(<<>>)
    ELSE IF Head(ids) \notin DOMAIN by_id THEN Raise("KeyError", Head(ids))
    ELSE LET rest == AnyTexts(by_id, Tail(ids))
         IN  IF ~IsOk(rest) THEN rest
             ELSE Ok(<<GetD(by_id[Head(ids)], "Text", <<>>)>> \o rest.value)

\* val_text without the test of the target's type
val_text_AnyType(by_id, val_block) ==
    AnyTexts(by_id, ChildTargets(GetD(val_block, "Relationships", <<>>)))

\* lines 78-84: the value node's CHILD targets
val_text(by_id, val_block) ==
    WordTexts(by_id, ChildTargets(GetD(val_block, "Relationships", <<>>)))

\* lines 104-110: the cell's CHILD targets
txt(by_id, cell) == WordTexts(by_id, ChildTargets(GetD(cell, "Relationships", <<>>)))

\* 1. Raw text items: the dict appended for one WORD or LINE block
RawItem(b) ==
    [Text |-> GetD(b, "Text", <<>>),
     Type |-> b.BlockType,
     Page |-> Get(b, "Page"),
     Confidence |-> Get(b, "Confidence"),
     BoundingBox |-> BoundingBox(b)]

RECURSIVE RawText(_)
RawText(bs) ==
    IF Len(bs) = 0 THEN <<>>
    ELSE (IF Head(bs).BlockType \in {"WORD", "LINE"} THEN <<RawItem(Head(bs))>> ELSE <<>>)
         \o RawText(Tail(bs))

\* b["BlockType"] == "KEY_VALUE_SET" and "KEY" in b.get("EntityTypes", [])
IsKeyBlock(b) ==
    /\ b.BlockType = "KEY_VALUE_SET"
    /\ \E i \in DOMAIN GetD(b, "EntityTypes", <<>>) : GetD(b, "EntityTypes", <<>>)[i] = "KEY"

\* next((r for r in b.get("Relationships", []) if r["Type"] == "VALUE"), None)
ValRel(b) ==
    LET rels == GetD(b, "Relationships", <<>>)
        hits == {i \in DOMAIN rels : rels[i].Type = "VALUE"}
    IN  IF hits = {} THEN None
        ELSE Some(rels[CHOOSE i \in hits : \A j \in hits : i <= j])

\* the body of the key-value loop for one key block: the pairs it appends
KeyValue(by_id, b) ==
    LET kt == key_text(by_id, b)
        val_rel == ValRel(b)
    IN  IF ~IsOk(kt) THEN kt
        ELSE IF val_rel = None THEN Ok(<<>>)
        ELSE IF Len(val_rel.some.Ids) = 0 THEN Raise("IndexError", "Ids")
        ELSE IF val_rel.some.Ids[1] \notin DOMAIN by_id
             THEN Raise("KeyError", val_rel.some.Ids[1])
        ELSE LET val_block == by_id[val_rel.some.Ids[1]]
                 vt == val_text(by_id, val_block)
             IN  IF ~IsOk(vt) THEN vt
                 ELSE Ok(<<[Key |-> Strip(Join(kt.value)),
                            Value |-> Strip(Join(vt.value)),
                            KeyBox |-> BoundingBox(b),
                            ValueBox |-> BoundingBox(val_block),
                            Confidence |-> [Key |-> Get(b, "Confidence"),
                                            Value |-> Get(val_block, "Confidence")]]>>)

RECURSIVE KeyValues(_, _)
\* 2. Key -> Value pairs
KeyValues(by_id, bs) ==
    IF Len(bs) = 0 THEN Ok(<<>>)
    ELSE LET one == IF IsKeyBlock(Head(bs)) THEN KeyValue(by_id, Head(bs)) ELSE Ok(<<>>)
             rest == KeyValues(by_id, Tail(bs))
         IN  IF ~IsOk(one) THEN one
             ELSE IF ~IsOk(rest) THEN rest
             ELSE Ok(one.value \o rest.value)

\* the dict appended for one CELL block
Cell(cell, text) ==
    [Row |-> Get(cell, "RowIndex"),
     Column |-> Get(cell, "ColumnIndex"),
     Text |-> Strip(Join(text)),
     BoundingBox |-> BoundingBox(cell),
     Confidence |-> Get(cell, "Confidence")]

RECURSIVE Cells(_, _)
\* for cid in rel["Ids"]: cell = by_id[cid]; if CELL: gather text, append
Cells(by_id, ids) ==
    IF Len(ids) = 0 THEN Ok(<<>>)
    ELSE IF Head(ids) \notin DOMAIN by_id THEN Raise("KeyError", Head(ids))
    ELSE LET cell == by_id[Head(ids)]
             t == txt(by_id, cell)
             rest == Cells(by_id, Tail(ids))
         IN  IF cell.BlockType # "CELL" THEN rest
             ELSE IF ~IsOk(t) THEN t
             ELSE IF ~IsOk(rest) THEN rest
             ELSE Ok(<<Cell(cell, t.value)>> \o rest.value)

\* the body of the table loop for one TABLE block
Table(by_id, b) ==
    LET cells == Cells(by_id, ChildTargets(GetD(b, "Relationships", <<>>)))
    IN  IF ~IsOk(cells) THEN cells
        ELSE Ok(<<[Page |-> Get(b, "Page"), Cells |-> cells.value]>>)

RECURSIVE Tables(_, _)
\* 3. Tables -> Cells -> Words
Tables(by_id, bs) ==
    IF Len(bs) = 0 THEN Ok(<<>>)
    ELSE LET one == IF Head(bs).BlockType = "TABLE" THEN Table(by_id, Head(bs)) ELSE Ok(<<>>)
             rest == Tables(by_id, Tail(bs))
         IN  IF ~IsOk(one) THEN one
             ELSE IF ~IsOk(rest) THEN rest
             ELSE Ok(one.value \o rest.value)

parse_blocks(bs) ==
    LET by_id == ById(bs)
        raw == RawText(bs)
        kvs == KeyValues(by_id, bs)
        tables == Tables(by_id, bs)
    IN  IF ~IsOk(kvs) THEN kvs
        ELSE IF ~IsOk(tables) THEN tables
        ELSE Ok([RawText |-> raw, KeyValues |-> kvs.value, Tables |-> tables.value])

---------------------------------------------------------------------------
(* Inputs of parse_blocks: node collections of at most MaxBlocks nodes.     *)
(* The nodes are drawn from a menu that has, for each node type, nodes with *)
(* and without each optional field, edges of the types CHILD, VALUE and     *)
(* another one, two nodes per identifier (so identifiers may repeat) and    *)
(* the identifier "zz", which no node has (a dangling target).              *)

Box == [Left |-> 0, Top |-> 0, Width |-> 1, Height |-> 1]
Child(ids) == [Type |-> "CHILD", Ids |-> ids]
Value(ids) == [Type |-> "VALUE", Ids |-> ids]
Merged(ids) == [Type |-> "MERGED_CELL", Ids |-> ids]
KeySet(rels) ==
    [Id |-> "k1", BlockType |-> "KEY_VALUE_SET", EntityTypes |-> <<"KEY">>,
     Relationships |-> rels]

TextNodes ==
    { [Id |-> "w1", BlockType |-> "WORD", Text |-> <<"a">>, Page |-> 1,
       Confidence |-> 99, Geometry |-> [BoundingBox |-> Box]],
      [Id |-> "w2", BlockType |-> "WORD", Text |-> <<"b">>, Page |-> 0,
       Confidence |-> 0],
      [Id |-> "w1", BlockType |-> "WORD"],
      [Id |-> "w2", BlockType |-> "WORD", Text |-> <<>>, Geometry |-> EmptyDict],
      [Id |-> "l1", BlockType |-> "LINE", Text |-> <<"a", " ", "b">>, Page |-> 1],
      [Id |-> "w2", BlockType |-> "PAGE", Text |-> <<"b">>, Page |-> 1] }

KeyValueNodes ==
    { KeySet(<<Child(<<"w1">>), Value(<<"v1">>)>>),
      KeySet(<<Child(<<"w2">>), Child(<<"w1", "w2">>), Value(<<"k1">>)>>),
      KeySet(<<Merged(<<"w1">>), Value(<<"v1">>), Value(<<"w1">>)>>),
      KeySet(<<Child(<<"w1">>)>>),
      KeySet(<<Child(<<"zz">>)>>),
      KeySet(<<Value(<<"zz">>)>>),
      KeySet(<<Value(<<>>)>>),
      [Id |-> "k1", BlockType |-> "KEY_VALUE_SET", EntityTypes |-> <<"KEY">>,
       Confidence |-> 80, Geometry |-> [BoundingBox |-> Box]],
      [Id |-> "v1", BlockType |-> "KEY_VALUE_SET", EntityTypes |-> <<"VALUE">>,
       Relationships |-> <<Child(<<"w1">>), Value(<<"w1">>)>>, Confidence |-> 70],
      [Id |-> "v1", BlockType |-> "KEY_VALUE_SET"],
      [Id |-> "k1", BlockType |-> "LINE", EntityTypes |-> <<"KEY">>,
       Relationships |-> <<Child(<<"w1">>), Value(<<"v1">>)>>] }

TableNodes ==
    { [Id |-> "t1", BlockType |-> "TABLE", Page |-> 1,
       Relationships |-> <<Child(<<"c1", "c2">>)>>],
      [Id |-> "t1", BlockType |-> "TABLE",
       Relationships |-> <<Child(<<"c2">>), Value(<<"c1">>), Child(<<"t1", "c2">>)>>],
      [Id |-> "t1", BlockType |-> "TABLE", Relationships |-> <<Child(<<"c1">>)>>],
      [Id |-> "t1", BlockType |-> "TABLE"],
      [Id |-> "t1", BlockType |-> "TABLE", Relationships |-> <<Child(<<"zz">>)>>],
      [Id |-> "c1", BlockType |-> "CELL", RowIndex |-> 2, ColumnIndex |-> 1,
       Relationships |-> <<Child(<<"w1">>)>>, Confidence |-> 90,
       Geometry |-> [BoundingBox |-> Box]],
      [Id |-> "c1", BlockType |-> "CELL", RowIndex |-> 2, ColumnIndex |-> 1],
      [Id |-> "c1", BlockType |-> "CELL",
       Relationships |-> <<Merged(<<"w1">>), Child(<<"w2">>), Child(<<"w1">>)>>],
      [Id |-> "c2", BlockType |-> "CELL", RowIndex |-> 1, ColumnIndex |-> 2] }

Nodes == TextNodes \cup KeyValueNodes \cup TableNodes

Inputs == UNION {[1..n -> Nodes] : n \in 0..MaxBlocks}

NotCalled == [exc |-> "NotCalled"]
NoArgv == [n |-> 0, pdf_path |-> <<>>, prefix |-> <<>>]

---------------------------------------------------------------------------
(* parse_blocks applied to every input *)

Init ==
    /\ blocks \in Inputs
    /\ result = NotCalled
    /\ calls = 0
    /\ pc = "idle"
    /\ argv = NoArgv
    /\ key = None
    /\ log = <<>>
    /\ status = None
    /\ waited = 0
    /\ exit = None
    /\ printed = None

\* a parse_blocks reading the text with b.setdefault("Text", ""): every node
\* without a Text gets one
InputAfterCall_SetDefault(bs) ==
    [i \in DOMAIN bs |->
        [k \in DOMAIN bs[i] \cup {"Text"} |->
            IF k \in DOMAIN bs[i] THEN bs[i][k] ELSE <<>>]]

\* the collection after a call: parse_blocks reads blocks and its nodes with
\* [] and .get only, and assigns to neither
InputAfterCall(bs) == bs

\* result = parse_blocks(blocks)
CallParseBlocks ==
    /\ pc = "idle"
    /\ calls < MaxCalls
    /\ result' = parse_blocks(blocks)
    /\ blocks' = InputAfterCall(blocks)
    /\ calls' = calls + 1
    /\ UNCHANGED <<pc, argv, key, log, status, waited, exit, printed>>

Next == CallParseBlocks

Spec == Init /\ [][Next]_vars

---------------------------------------------------------------------------
(* Vocabulary of the properties of parse_blocks, stated on the input       *)

Called == result # NotCalled
Returned == Called /\ IsOk(result)

EdgesOf(b) == IF "Relationships" \in DOMAIN b THEN b.Relationships ELSE <<>>

TaggedKey(b) ==
    /\ b.BlockType = "KEY_VALUE_SET"
    /\ "EntityTypes" \in DOMAIN b
    /\ \E i \in DOMAIN b.EntityTypes : b.EntityTypes[i] = "KEY"

HasValueEdge(b) == \E i \in DOMAIN EdgesOf(b) : EdgesOf(b)[i].Type = "VALUE"

FirstValueEdge(b) ==
    EdgesOf(b)[CHOOSE i \in DOMAIN EdgesOf(b) :
                  /\ EdgesOf(b)[i].Type = "VALUE"
                  /\ \A j \in 1..(i-1) : EdgesOf(b)[j].Type # "VALUE"]

Resolves(bs, id) == \E n \in DOMAIN bs : bs[n].Id = id

\* the node the index maps id to
NodeOf(bs, id) ==
    bs[CHOOSE n \in DOMAIN bs :
          bs[n].Id = id /\ \A m \in DOMAIN bs : bs[m].Id = id => m <= n]

UniqueIds(bs) == \A m, n \in DOMAIN bs : bs[m].Id = bs[n].Id => m = n

\* unique identifiers, and every target of every edge resolves
WellFormed(bs) ==
    /\ UniqueIds(bs)
    /\ \A n \in DOMAIN bs : \A i \in DOMAIN EdgesOf(bs[n]) :
          \A j \in DOMAIN EdgesOf(bs[n])[i].Ids :
              Resolves(bs, EdgesOf(bs[n])[i].Ids[j])

RECURSIVE TargetsUpTo(_, _)
TargetsUpTo(edges, k) ==
    IF k = 0 THEN <<>>
    ELSE TargetsUpTo(edges, k - 1)
         \o (IF edges[k].Type = "CHILD" THEN edges[k].Ids ELSE <<>>)

\* the targets of b's CHILD edges: edge order, then identifier order within an edge
ChildTargetsOf(b) == TargetsUpTo(EdgesOf(b), Len(EdgesOf(b)))

\* those of b's CHILD targets that the index maps to a node of type t
TargetsOfType(bs, b, t) ==
    SelectSeq(ChildTargetsOf(b),
              LAMBDA id : Resolves(bs, id) /\ NodeOf(bs, id).BlockType = t)

TextOf(b) == IF "Text" \in DOMAIN b THEN b.Text ELSE <<>>

WordsOf(bs, b) ==
    LET ids == TargetsOfType(bs, b, "WORD")
    IN  [i \in DOMAIN ids |-> TextOf(NodeOf(bs, ids[i]))]

RECURSIVE JoinedUpTo(_, _)
\* the first k texts with one space between neighbours
JoinedUpTo(ts, k) ==
    IF k = 0 THEN <<>>
    ELSE IF k = 1 THEN ts[1]
    ELSE JoinedUpTo(ts, k - 1) \o <<" ">> \o ts[k]

\* t is s without its leading and trailing spaces
IsTrimOf(t, s) ==
    /\ (Len(t) > 0 => t[1] # " " /\ t[Len(t)] # " ")
    /\ \E i \in 1..(Len(s) + 1) :
          /\ i + Len(t) - 1 <= Len(s)
          /\ t = SubSeq(s, i, i + Len(t) - 1)
          /\ \A j \in DOMAIN s : (j < i \/ j > i + Len(t) - 1) => s[j] = " "

\* text follows the rule for node b
FollowsRule(text, bs, b) ==
    IsTrimOf(text, JoinedUpTo(WordsOf(bs, b), Len(WordsOf(bs, b))))

KeyNodes(bs) == SelectSeq(bs, LAMBDA b : TaggedKey(b) /\ HasValueEdge(b))
TableNodesOf(bs) == SelectSeq(bs, LAMBDA b : b.BlockType = "TABLE")
TextNodesOf(bs) == SelectSeq(bs, LAMBDA b : b.BlockType \in {"WORD", "LINE"})

\* The properties below are stated on the result of a call that has returned.

\* KeyValues has one entry per KEY-tagged KEY_VALUE_SET node with a VALUE edge,
\* in input order
PairsMatchKeyNodes ==
    LET kvs == result.value.KeyValues
        ks == KeyNodes(blocks)
    IN  /\ Len(kvs) = Len(ks)
        /\ \A j \in DOMAIN kvs :
              /\ kvs[j].Confidence.Key = Get(ks[j], "Confidence")
              /\ kvs[j].KeyBox = BoundingBox(ks[j])

\* Tables has one entry per TABLE node, in input order; its Cells are the
\* CELL-type CHILD targets in traversal order with the cell node's indices
TablesMatchTableNodes ==
    LET tabs == result.value.Tables
        ts == TableNodesOf(blocks)
    IN  /\ Len(tabs) = Len(ts)
        /\ \A j \in DOMAIN tabs :
              LET ids == TargetsOfType(blocks, ts[j], "CELL")
                  cells == tabs[j].Cells
              IN  /\ Len(cells) = Len(ids)
                  /\ \A k \in DOMAIN cells :
                        /\ cells[k].Row = Get(NodeOf(blocks, ids[k]), "RowIndex")
                        /\ cells[k].Column = Get(NodeOf(blocks, ids[k]), "ColumnIndex")

---------------------------------------------------------------------------
(* Properties of parse_blocks *)

EmptyResult == [RawText |-> <<>>, KeyValues |-> <<>>, Tables |-> <<>>]

\* C1: for every input node collection, dangling edge targets included,
\* parse_blocks raises no error and returns the three parts RawText, KeyValues
\* and Tables; for the empty collection all three are empty.
C1_NeverRaises ==
    Called =>
        /\ IsOk(result)
        /\ DOMAIN result.value = {"RawText", "KeyValues", "Tables"}
        /\ (blocks = <<>> => result.value = EmptyResult)

\* C2: whatever the input, KeyValues holds exactly one pair per KEY_VALUE_SET
\* node tagged KEY that has a VALUE edge, in input order; a tagged node without
\* a VALUE edge is skipped whatever its CHILD edges are, and no other node
\* contributes a pair.
C2_OnePairPerKeyWithValue == Called => (IsOk(result) /\ PairsMatchKeyNodes)

\* C2 restricted to the calls that return
C2_WhenReturned == Returned => PairsMatchKeyNodes

\* the Text Item C4 expects for node b: a missing page, confidence or bounding
\* box is null, a missing text is the empty string
ExpectedTextItem(b) ==
    [Text |-> TextOf(b),
     Type |-> b.BlockType,
     Page |-> IF "Page" \in DOMAIN b THEN Some(b.Page) ELSE None,
     Confidence |-> IF "Confidence" \in DOMAIN b THEN Some(b.Confidence) ELSE None,
     BoundingBox |-> IF "Geometry" \in DOMAIN b /\ "BoundingBox" \in DOMAIN b.Geometry
                     THEN b.Geometry.BoundingBox ELSE None]

\* C4: RawText holds exactly one Text Item per WORD or LINE node, in input
\* order, copying text, type, page, confidence and bounding box; every missing
\* page, confidence or bounding box is null (not zero, not an empty value) and
\* a missing text is the empty string.
C4_TextItemsVerbatimOrNull ==
    Called =>
        /\ IsOk(result)
        /\ LET ns == TextNodesOf(blocks)
           IN  result.value.RawText = [i \in DOMAIN ns |-> ExpectedTextItem(ns[i])]

\* C4 with the bounding box as the code emits it ({} when missing), restricted
\* to the calls that return
C4_WhenReturned ==
    Returned =>
        LET ns == TextNodesOf(blocks)
        IN  result.value.RawText =
                [i \in DOMAIN ns |->
                    [ExpectedTextItem(ns[i]) EXCEPT !.BoundingBox =
                        IF @ = None THEN EmptyDict ELSE @]]

\* C5: whatever the input, Tables holds exactly one Table per TABLE node, in
\* input order; its Cells are the CELL-type targets of the node's CHILD edges,
\* one per occurrence, in traversal order, with the CELL node's row and column
\* index unmodified.
C5_OneTablePerTableNode == Called => (IsOk(result) /\ TablesMatchTableNodes)

\* C5 restricted to the calls that return
C5_WhenReturned == Returned => TablesMatchTableNodes

\* C6: for well-formed input, the key text and the value text of every emitted
\* pair and the text of every emitted cell follow one rule, applied to the key
\* node, to the node named by the first target of the key node's VALUE edge,
\* and to the CELL node: the texts of the WORD-type targets of the node's CHILD
\* edges, in edge order and then identifier order, joined by single spaces and
\* trimmed (the empty string when there is no WORD child).
C6_SameTextRule ==
    (Returned /\ WellFormed(blocks)) =>
        LET kvs == result.value.KeyValues
            ks == KeyNodes(blocks)
            tabs == result.value.Tables
            ts == TableNodesOf(blocks)
        IN  /\ Len(kvs) = Len(ks)
            /\ \A j \in DOMAIN kvs :
                  /\ FollowsRule(kvs[j].Key, blocks, ks[j])
                  /\ FollowsRule(kvs[j].Value, blocks,
                                 NodeOf(blocks, FirstValueEdge(ks[j]).Ids[1]))
            /\ Len(tabs) = Len(ts)
            /\ \A j \in DOMAIN tabs :
                  LET ids == TargetsOfType(blocks, ts[j], "CELL")
                  IN  /\ Len(tabs[j].Cells) = Len(ids)
                      /\ \A k \in DOMAIN ids :
                            FollowsRule(tabs[j].Cells[k].Text, blocks,
                                        NodeOf(blocks, ids[k]))

\* a well-formed input whose key text joins the words of two CHILD edges
C6_Witness ==
    /\ Returned
    /\ WellFormed(blocks)
    /\ \E j \in DOMAIN result.value.KeyValues :
          /\ result.value.KeyValues[j].Key = <<"b", " ", "a", " ", "b">>
          /\ Len(WordsOf(blocks, KeyNodes(blocks)[j])) = 3

\* a well-formed input with a table whose cell has a word
C6_WitnessCell ==
    /\ Returned
    /\ WellFormed(blocks)
    /\ \E j \in DOMAIN result.value.Tables :
          \E k \in DOMAIN result.value.Tables[j].Cells :
              result.value.Tables[j].Cells[k].Text = <<"a">>

---------------------------------------------------------------------------
(* main and get_job_results.  os.path is posixpath.  The storage and the   *)
(* analysis service are the environment: upload_file and                   *)
(* start_document_analysis return or raise, get_document_analysis answers  *)
(* every call with a response whose JobStatus may be missing.              *)

SleepSeconds == 5

\* os.path.basename(p): i = p.rfind('/') + 1; return p[i:]
Basename(p) ==
    LET slashes == {i \in DOMAIN p : p[i] = "/"}
        i == IF slashes = {} THEN 0 ELSE CHOOSE m \in slashes : \A n \in slashes : n <= m
    IN  SubSeq(p, i + 1, Len(p))

RECURSIVE RStripSlash(_)
\* s.rstrip('/')
RStripSlash(s) ==
    IF Len(s) > 0 /\ s[Len(s)] = "/" THEN RStripSlash(SubSeq(s, 1, Len(s) - 1)) ELSE s

\* posixpath.join(a, b)
OsPathJoin(a, b) ==
    IF Len(b) > 0 /\ b[1] = "/" THEN b
    ELSE IF Len(a) = 0 \/ a[Len(a)] = "/" THEN a \o b
    ELSE a \o <<"/">> \o b

\* len(sys.argv): the script name and the n arguments
ArgvLen(av) == av.n + 1

\* len(sys.argv) < 3 with one argument more
TooFewArgs_OffByOne(av) == ArgvLen(av) < 2

\* len(sys.argv) < 3
TooFewArgs(av) == ArgvLen(av) < 3

\* sys.argv[3] if len(sys.argv) > 3 else ""
Prefix(av) == IF ArgvLen(av) > 3 THEN av.prefix ELSE <<>>

\* the key as prefix + basename
ObjectKey_Concat(av) == Prefix(av) \o Basename(av.pdf_path)

\* os.path.join(prefix.rstrip('/'), basename) if prefix else basename
ObjectKey(av) ==
    IF Prefix(av) # <<>>
    THEN OsPathJoin(RStripSlash(Prefix(av)), Basename(av.pdf_path))
    ELSE Basename(av.pdf_path)

\* status in ("SUCCEEDED",)
Terminal_OnlySucceeded(st) == st = Some("SUCCEEDED")

\* status in ("SUCCEEDED", "FAILED")
Terminal(st) == st \in {Some("SUCCEEDED"), Some("FAILED")}

\* get_job_results without its raise
JobFailed_Never(st) == FALSE

\* status != "SUCCEEDED"
JobFailed(st) == st # Some("SUCCEEDED")

Chars(n, alphabet) == UNION {[1..k -> alphabet] : k \in 0..n}

Argvs ==
    {[n |-> 0, pdf_path |-> <<>>, prefix |-> <<>>]}
    \cup {[n |-> n, pdf_path |-> p, prefix |-> <<>>] :
              n \in 1..2, p \in Chars(MaxPathLen, {"f", "/"})}
    \cup {[n |-> n, pdf_path |-> p, prefix |-> q] :
              n \in 3..MaxArgs, p \in Chars(MaxPathLen, {"f", "/"}),
              q \in Chars(MaxPrefixLen, {"p", "/"})}

Statuses == {None, Some("IN_PROGRESS"), Some("PARTIAL_SUCCESS"),
             Some("SUCCEEDED"), Some("FAILED")}

\* the node collections a response carries: one that parses, one on which
\* parse_blocks raises, and the empty one
ResponseBlocks ==
    {<<>>,
     <<[Id |-> "w1", BlockType |-> "WORD", Text |-> <<"a">>]>>,
     <<KeySet(<<Child(<<"zz">>)>>)>>}

Exited(code, why) == Some([code |-> code, why |-> why])

Checks == Cardinality({i \in DOMAIN log : log[i].op = "get_document_analysis"})

MainInit ==
    /\ blocks = <<>>
    /\ result = NotCalled
    /\ calls = 0
    /\ pc = "start"
    /\ argv \in Argvs
    /\ key = None
    /\ log = <<>>
    /\ status = None
    /\ waited = 0
    /\ exit = None
    /\ printed = None

\* lines 124-131: the argument check and the key
Main_CheckArgs ==
    /\ pc = "start"
    /\ IF TooFewArgs(argv)
       THEN /\ pc' = "done"
            /\ exit' = Exited(1, "usage")
            /\ key' = key
       ELSE /\ pc' = "upload"
            /\ key' = Some(ObjectKey(argv))
            /\ exit' = exit
    /\ UNCHANGED <<blocks, result, calls, argv, log, status, waited, printed>>

\* lines 133-134: upload_to_s3(pdf_path, bucket, key)
UploadToS3 ==
    /\ pc = "upload"
    /\ \E ok \in BOOLEAN :
          /\ log' = Append(log, [op |-> "upload_file", key |-> key.some, ok |-> ok])
          /\ IF ok
             THEN pc' = "start_analysis" /\ exit' = exit
             ELSE pc' = "done" /\ exit' = Exited(1, "S3UploadFailedError")
    /\ UNCHANGED <<blocks, result, calls, argv, key, status, waited, printed>>

\* lines 136-137: job_id = start_analysis(bucket, key)
StartAnalysis ==
    /\ pc = "start_analysis"
    /\ \E ok \in BOOLEAN :
          /\ log' = Append(log, [op |-> "start_document_analysis", key |-> key.some,
                                 ok |-> ok])
          /\ IF ok
             THEN pc' = "poll" /\ exit' = exit
             ELSE pc' = "done" /\ exit' = Exited(1, "ClientError")
    /\ UNCHANGED <<blocks, result, calls, argv, key, status, waited, printed>>

\* lines 33-37 and 39-41: one status check of get_job_results and, when it ends
\* the loop, the raise or the return of resp["Blocks"].  The service answers
\* with a non-terminal status at most MaxPolls times.
GetJobResults ==
    /\ pc = "poll"
    /\ \E st \in Statuses, bs \in ResponseBlocks :
          /\ st \in {Some("SUCCEEDED"), Some("FAILED")} \/ Checks < MaxPolls
          /\ st # Some("SUCCEEDED") => bs = <<>>
          /\ log' = Append(log, [op |-> "get_document_analysis", status |-> st,
                                 Blocks |-> bs, ok |-> TRUE])
          /\ status' = st
          /\ IF ~Terminal(st)
             THEN pc' = "sleep" /\ exit' = exit /\ blocks' = blocks
             ELSE IF JobFailed(st)
             THEN pc' = "done" /\ exit' = Exited(1, "RuntimeError") /\ blocks' = blocks
             ELSE pc' = "parse" /\ exit' = exit /\ blocks' = bs
    /\ UNCHANGED <<result, calls, argv, key, waited, printed>>

\* line 38: time.sleep(5)
Sleep ==
    /\ pc = "sleep"
    /\ waited' = waited + SleepSeconds
    /\ pc' = "poll"
    /\ UNCHANGED <<blocks, result, calls, argv, key, log, status, exit, printed>>

\* line 142: result = parse_blocks(blocks)
Main_ParseBlocks ==
    /\ pc = "parse"
    /\ result' = parse_blocks(blocks)
    /\ calls' = calls + 1
    /\ IF IsOk(parse_blocks(blocks))
       THEN pc' = "print" /\ exit' = exit
       ELSE pc' = "done" /\ exit' = Exited(1, parse_blocks(blocks).exc)
    /\ blocks' = InputAfterCall(blocks)
    /\ UNCHANGED <<argv, key, log, status, waited, printed>>

\* line 143: print(json.dumps(result, indent=2))
Main_Print ==
    /\ pc = "print"
    /\ printed' = Some(result.value)
    /\ exit' = Exited(0, "")
    /\ pc' = "done"
    /\ UNCHANGED <<blocks, result, calls, argv, key, log, status, waited>>

MainNext ==
    \/ Main_CheckArgs
    \/ UploadToS3
    \/ StartAnalysis
    \/ GetJobResults
    \/ Sleep
    \/ Main_ParseBlocks
    \/ Main_Print

MainSpec == MainInit /\ [][MainNext]_vars

---------------------------------------------------------------------------
(* Properties of main and get_job_results *)

CheckEntries == SelectSeq(log, LAMBDA e : e.op = "get_document_analysis")
IsTerminalStatus(st) == st = Some("SUCCEEDED") \/ st = Some("FAILED")

\* C3: parse_blocks is called and the result printed only after a poll response
\* with status SUCCEEDED; when the polled status is FAILED the run ends with a
\* reported failure, parse_blocks is never called and nothing is printed.
C3_ParseOnlyAfterSucceeded ==
    /\ (calls > 0 \/ printed # None \/ pc \in {"parse", "print"}) =>
          /\ status = Some("SUCCEEDED")
          /\ CheckEntries[Len(CheckEntries)].status = Some("SUCCEEDED")
    /\ status = Some("FAILED") =>
          /\ pc = "done"
          /\ exit = Exited(1, "RuntimeError")
          /\ calls = 0
          /\ printed = None

\* the job has failed after at least one wait
C3_Witness ==
    /\ status = Some("FAILED")
    /\ waited > 0
    /\ pc = "done"

\* a run that has printed its result
C3_WitnessPrinted == printed # None /\ printed.some.RawText # <<>>

\* C8: the stages run in the order argument check, upload, job start, polling,
\* and a failure stops the run before the next stage: with fewer than two
\* arguments the process exits with a non-zero status before any storage or
\* analysis-service call, and when the upload fails no job is started and
\* nothing is polled or parsed.
C8_StagesInOrder ==
    /\ argv.n < 2 =>
          /\ log = <<>>
          /\ calls = 0
          /\ pc \in {"start", "done"}
          /\ (pc = "done" => exit # None /\ exit.some.code # 0)
    /\ \A i \in DOMAIN log :
          /\ log[i].op = "upload_file" <=> i = 1
          /\ log[i].op = "start_document_analysis" <=> i = 2
          /\ log[i].op = "get_document_analysis" <=> i >= 3
          /\ ~log[i].ok =>
                /\ i = Len(log)
                /\ pc = "done"
                /\ exit # None /\ exit.some.code # 0
                /\ calls = 0
                /\ printed = None
    /\ (calls > 0 \/ pc \in {"sleep", "parse", "print"}) => Len(log) >= 3
    /\ pc \in {"start", "upload"} => log = <<>>
    /\ pc = "start_analysis" => Len(log) = 1
    /\ pc = "poll" => Len(log) >= 2

\* the upload has failed
C8_Witness ==
    /\ pc = "done"
    /\ Len(log) = 1
    /\ ~log[1].ok

\* the run stopped at the argument check with one argument given
C8_WitnessUsage == pc = "done" /\ argv.n = 1 /\ exit = Exited(1, "usage")

\* the part of path after its last "/"
BaseNameOf(path) ==
    CHOOSE b \in {SubSeq(path, i, Len(path)) : i \in 1..(Len(path) + 1)} :
        /\ \A j \in DOMAIN b : b[j] # "/"
        /\ Len(b) < Len(path) => path[Len(path) - Len(b)] = "/"

\* the prefix argument given and not empty
PrefixGiven == argv.n >= 3 /\ argv.prefix # <<>>

\* every storage or analysis call that names a key names the key main computed
SameKeyEverywhere ==
    \A i \in DOMAIN log : "key" \in DOMAIN log[i] => log[i].key = key.some

\* C9: the key is prefix + basename(file), the prefix immediately followed by
\* the base name, whenever a non-empty prefix is given, with or without a
\* trailing "/", and basename(file) when no prefix is given; the same key is
\* used for the upload and for the job start.
C9_KeyIsPrefixPlusBasename ==
    key # None =>
        /\ key.some = IF PrefixGiven THEN argv.prefix \o BaseNameOf(argv.pdf_path)
                      ELSE BaseNameOf(argv.pdf_path)
        /\ SameKeyEverywhere

\* prefix without its trailing "/" characters
WithoutTrailingSlashes(q) ==
    CHOOSE t \in {SubSeq(q, 1, k) : k \in 0..Len(q)} :
        /\ Len(t) > 0 => t[Len(t)] # "/"
        /\ \A j \in (Len(t) + 1)..Len(q) : q[j] = "/"

\* C9 as amended: when a non-empty prefix is given the key is the prefix
\* without its trailing "/" characters, then one "/", then the base name, and
\* just the base name when nothing is left of the prefix; it is the base name
\* when no prefix is given; the upload and the job start use that key.
C9_KeyJoinsStrippedPrefix ==
    key # None =>
        /\ key.some =
              IF PrefixGiven /\ WithoutTrailingSlashes(argv.prefix) # <<>>
              THEN WithoutTrailingSlashes(argv.prefix) \o <<"/">>
                   \o BaseNameOf(argv.pdf_path)
              ELSE BaseNameOf(argv.pdf_path)
        /\ SameKeyEverywhere

\* the job was started for a file in a directory under a prefix without a
\* trailing "/"
C9_Witness ==
    /\ Len(log) >= 2
    /\ argv.prefix = <<"p">>
    /\ argv.pdf_path = <<"f", "/", "f">>
    /\ key = Some(<<"p", "/", "f">>)

\* C10: get_job_results checks again, after one fixed wait, as long as the
\* reported status is neither SUCCEEDED nor FAILED (a missing status included),
\* however many checks were made; it stops at the first response whose status
\* is SUCCEEDED or FAILED without a further check or wait, and on SUCCEEDED
\* returns that response's node collection.
C10_PollingPolicy ==
    LET cs == CheckEntries
        n == Len(cs)
    IN  /\ \A i \in 1..(n - 1) : ~IsTerminalStatus(cs[i].status)
        /\ pc = "poll" =>
              /\ waited = SleepSeconds * n
              /\ n > 0 => ~IsTerminalStatus(cs[n].status)
              /\ ENABLED GetJobResults
        /\ pc = "sleep" =>
              /\ ENABLED Sleep
              /\ n > 0
              /\ ~IsTerminalStatus(cs[n].status)
              /\ waited = SleepSeconds * (n - 1)
        /\ n > 0 /\ ~IsTerminalStatus(cs[n].status) => pc \in {"poll", "sleep"}
        /\ n > 0 /\ IsTerminalStatus(cs[n].status) =>
              /\ pc \in {"parse", "print", "done"}
              /\ waited = SleepSeconds * (n - 1)
              /\ Len(log) = n + 2
              /\ cs[n].status = Some("SUCCEEDED") =>
                    /\ blocks = cs[n].Blocks
                    /\ (pc = "done" => calls = 1)
              /\ cs[n].status = Some("FAILED") => pc = "done" /\ calls = 0

\* the loop has ended on SUCCEEDED after MaxPolls checks without a terminal
\* status, one of them without any status
C10_Witness ==
    /\ Len(CheckEntries) = MaxPolls + 1
    /\ \E i \in DOMAIN CheckEntries : CheckEntries[i].status = None
    /\ status = Some("SUCCEEDED")
    /\ waited = SleepSeconds * MaxPolls
    /\ pc = "parse"

====
